---- MODULE Spec2Model ----
(***************************************************************************)
(* Rule pipeline and HTML linkifier of automana (package rules).           *)
(*                                                                         *)
(* Strings are sequences of one-character strings, so that strings.Split   *)
(* and strings.HasPrefix are computed character by character.  An          *)
(* html.Node tree is a heap: a sequence of node records whose pointer      *)
(* fields hold indices into the heap, 0 being nil.                         *)
(***************************************************************************)
EXTENDS Integers, Sequences, FiniteSets, TLC

\* ------------------------------------------------------------------ bounds
MaxNodes == 4
MaxFixRuns == 2
MaxHour == 1
MaxMinute == 1
MaxSecond == 1
MaxNano == 1
MaxGates == 2
MaxMutators == 2
MaxFilters == 2
MaxActors == 2
MaxTasks == 2

\* ------------------------------------------------------------------ strings
NL == "\n"

\* The scheme prefixes tested by nodeHasUnlinkedURL.
HttpPrefix == <<"h", "t", "t", "p", ":", "/", "/">>
HttpsPrefix == <<"h", "t", "t", "p", "s", ":", "/", "/">>

\* strings.HasPrefix(s, prefix)
HasPrefix(s, prefix) ==
  /\ Len(s) >= Len(prefix)
  /\ \A i \in 1..Len(prefix) : s[i] = prefix[i]

\* strings.Split(s, "\n"): the pieces between the newlines, always at least one.
RECURSIVE SplitFrom(_, _, _)
SplitFrom(s, i, cur) ==
  IF i > Len(s) THEN <<cur>>
  ELSE IF s[i] = NL THEN <<cur>> \o SplitFrom(s, i + 1, <<>>)
  ELSE SplitFrom(s, i + 1, Append(cur, s[i]))

SplitLines(s) == SplitFrom(s, 1, <<>>)

\* ------------------------------------------------------------------ html.Node
\* &html.Node{Type: html.TextNode, Data: data, NextSibling: next}: every
\* field the literal does not name is the zero value.
NewTextNode(data, next) ==
  [Type |-> "Text", Data |-> data, DataAtom |-> "", Attr |-> <<>>,
   Parent |-> 0, FirstChild |-> 0, LastChild |-> 0,
   PrevSibling |-> 0, NextSibling |-> next]

TagA == <<"a">>
Href == <<"h", "r", "e", "f">>

\* node.Type == html.ElementNode && node.Data == "a"
IsAnchor(node) == node.Type = "Element" /\ node.Data = TagA

LineIsURL(line) == HasPrefix(line, HttpPrefix) \/ HasPrefix(line, HttpsPrefix)

\* A test for a scheme anywhere in a line instead of at its start.
nodeHasURLAnywhere(node) ==
  /\ node.Type = "Text"
  /\ \E i \in 1..Len(SplitLines(node.Data)) :
       \E k \in 1..Len(SplitLines(node.Data)[i]) :
         LineIsURL(SubSeq(SplitLines(node.Data)[i], k, Len(SplitLines(node.Data)[i])))

nodeHasUnlinkedURL(node) ==
  /\ node.Type = "Text"
  /\ \E i \in 1..Len(SplitLines(node.Data)) : LineIsURL(SplitLines(node.Data)[i])

\* The one element of a singleton set; { F(x) : x \in {e} } evaluates e once
\* for every use F makes of x.
TheOne(S) == CHOOSE x \in S : TRUE

\* prev.NextSibling = &html.Node{Type: html.TextNode, Data: data,
\* NextSibling: prev.NextSibling}: the new node is the last of the heap.
InsertAfter(h, prev, data) ==
  Append([h EXCEPT ![prev].NextSibling = Len(h) + 1], NewTextNode(data, h[prev].NextSibling))

\* A split loop that links the line nodes without the newline nodes.
RECURSIVE SplitLoopNoNewlines(_, _, _, _)
SplitLoopNoNewlines(h, prev, lines, i) ==
  IF i > Len(lines) THEN h
  ELSE TheOne({ SplitLoopNoNewlines(h1, Len(h1), lines, i + 1) :
                  h1 \in {InsertAfter(h, prev, lines[i])} })

\* The loop of splitTextNodes from line i on: prev is the node the next new
\* node is linked after.
RECURSIVE SplitLoop(_, _, _, _)
SplitLoop(h, prev, lines, i) ==
  IF i > Len(lines) THEN h
  ELSE IF i = Len(lines) THEN InsertAfter(h, prev, lines[i])
  ELSE TheOne({ SplitLoop(InsertAfter(h1, Len(h1), <<NL>>), Len(h1) + 1, lines, i + 1) :
                  h1 \in {InsertAfter(h, prev, lines[i])} })

\* splitTextNodes without node.Data = "": the node keeps its text.
splitTextNodesKeepData(h, node) ==
  SplitLoop(h, node, SplitLines(h[node].Data), 1)

splitTextNodes(h, node) ==
  SplitLoop([h EXCEPT ![node].Data = <<>>], node, SplitLines(h[node].Data), 1)

\* The body of the for loop of fixUnlinkedURL for one iter: a text node with
\* a URL line becomes an <a> element with one new text child.
ConvertToAnchor(h, iter) ==
  Append([h EXCEPT ![iter].FirstChild = Len(h) + 1,
                   ![iter].Type = "Element",
                   ![iter].Attr = Append(@, [Key |-> Href, Val |-> h[iter].Data]),
                   ![iter].Data = TagA,
                   ![iter].DataAtom = "a"],
         NewTextNode(h[iter].Data, 0))

\* for iter := node; iter != next; iter = iter.NextSibling
RECURSIVE ConvertLoop(_, _, _)
ConvertLoop(h, iter, next) ==
  IF iter = next THEN h
  ELSE IF ~nodeHasUnlinkedURL(h[iter]) THEN ConvertLoop(h, h[iter].NextSibling, next)
  ELSE TheOne({ ConvertLoop(h1, h1[iter].NextSibling, next) : h1 \in {ConvertToAnchor(h, iter)} })

\* The if statement that ends fixUnlinkedURL, h being the tree after both
\* recursive calls.
FixNode(h, node) ==
  IF nodeHasUnlinkedURL(h[node])
  THEN TheOne({ ConvertLoop(h1, node, h[node].NextSibling) : h1 \in {splitTextNodes(h, node)} })
  ELSE h

\* fixUnlinkedURL without the early return for <a>: it goes down links too.
RECURSIVE fixUnlinkedURLIntoLinks(_, _)
fixUnlinkedURLIntoLinks(h, node) ==
  IF node = 0 THEN h
  ELSE TheOne({ TheOne({ FixNode(h2, node) :
                           h2 \in {fixUnlinkedURLIntoLinks(h1, h1[node].NextSibling)} }) :
                  h1 \in {fixUnlinkedURLIntoLinks(h, h[node].FirstChild)} })

RECURSIVE fixUnlinkedURL(_, _)
fixUnlinkedURL(h, node) ==
  IF node = 0 THEN h
  ELSE IF IsAnchor(h[node]) THEN h
  ELSE TheOne({ TheOne({ FixNode(h2, node) : h2 \in {fixUnlinkedURL(h1, h1[node].NextSibling)} }) :
                  h1 \in {fixUnlinkedURL(h, h[node].FirstChild)} })

\* hasUnlinkedURL that looks at the node and its children but not at the
\* siblings after it.
RECURSIVE hasUnlinkedURLNoSiblings(_, _)
hasUnlinkedURLNoSiblings(h, node) ==
  IF node = 0 THEN FALSE
  ELSE IF IsAnchor(h[node]) THEN FALSE
  ELSE IF nodeHasUnlinkedURL(h[node]) THEN TRUE
  ELSE hasUnlinkedURLNoSiblings(h, h[node].FirstChild)

RECURSIVE hasUnlinkedURL(_, _)
hasUnlinkedURL(h, node) ==
  IF node = 0 THEN FALSE
  ELSE IF IsAnchor(h[node]) THEN FALSE
  ELSE IF nodeHasUnlinkedURL(h[node]) THEN TRUE
  ELSE IF hasUnlinkedURL(h, h[node].FirstChild) THEN TRUE
  ELSE hasUnlinkedURL(h, h[node].NextSibling)

\* ------------------------------------------------------------------ sample text
URLa == <<"h", "t", "t", "p", ":", "/", "/", "a">>
URLb == <<"h", "t", "t", "p", "s", ":", "/", "/", "b">>
Plain == <<"x">>
MidLine == <<"s", "e", "e", " ">> \o URLa

\* strings.Join(lines, "\n")
RECURSIVE JoinLines(_)
JoinLines(lines) ==
  IF Len(lines) = 0 THEN <<>>
  ELSE IF Len(lines) = 1 THEN lines[1]
  ELSE lines[1] \o <<NL>> \o JoinLines(Tail(lines))

\* The text-node contents the trees are built from: a bare URL, plain text,
\* a URL in mid-line, and multi-line texts with a URL on some lines.
Texts ==
  { JoinLines(ls) : ls \in { <<URLa>>, <<Plain>>, <<MidLine>>, <<Plain, URLb>>,
                             <<URLa, Plain>>, <<URLb, <<>>, URLa>>,
                             <<MidLine, Plain, URLb>> } }

\* ------------------------------------------------------------------ parsed trees
TagName ==
  [a |-> TagA, strong |-> <<"s", "t", "r", "o", "n", "g">>, body |-> <<"b", "o", "d", "y">>,
   html |-> <<"h", "t", "m", "l">>, head |-> <<"h", "e", "a", "d">>]

\* What a parsed node is: a text node, an <a href> element or another element.
TextKind(data) == [k |-> "text", data |-> data]
AnchorKind(href) == [k |-> "a", data |-> href]
ElementKind(tag) == [k |-> tag, data |-> <<>>]
DocumentKind == [k |-> "document", data |-> <<>>]

NodeKinds == {TextKind(t) : t \in Texts} \cup {AnchorKind(URLa), ElementKind("strong")}

Min(S) == CHOOSE x \in S : \A y \in S : x <= y
Max(S) == CHOOSE x \in S : \A y \in S : x >= y
MinOrNil(S) == IF S = {} THEN 0 ELSE Min(S)
MaxOrNil(S) == IF S = {} THEN 0 ELSE Max(S)

\* The heap of the tree with nodes 1..n, node 1 the root, par[i] the parent
\* of node i and the children of a node ordered by index: all five links of
\* every node agree, as the parser leaves them.
TreeHeap(n, par, kind) ==
  [i \in 1..n |->
     LET sibs == {j \in 2..n : i > 1 /\ par[j] = par[i]}
         kids == {j \in 2..n : par[j] = i}
         k == kind[i].k
     IN [Type |-> IF k = "text" THEN "Text" ELSE IF k = "document" THEN "Document" ELSE "Element",
         Data |-> IF k = "text" THEN kind[i].data ELSE IF k = "document" THEN <<>> ELSE TagName[k],
         DataAtom |-> IF k = "text" \/ k = "document" THEN "" ELSE k,
         Attr |-> IF k = "a" THEN <<[Key |-> Href, Val |-> kind[i].data]>> ELSE <<>>,
         Parent |-> IF i = 1 THEN 0 ELSE par[i],
         FirstChild |-> MinOrNil(kids),
         LastChild |-> MaxOrNil(kids),
         PrevSibling |-> MaxOrNil({j \in sibs : j < i}),
         NextSibling |-> MinOrNil({j \in sibs : j > i})]]

RECURSIVE UnderAnchor(_, _)
UnderAnchor(h, i) ==
  /\ h[i].Parent # 0
  /\ (IsAnchor(h[h[i].Parent]) \/ UnderAnchor(h, h[i].Parent))

\* A tree the HTML parser can produce: text nodes are non-empty leaves, no
\* two text nodes are adjacent siblings, and no <a> lies inside another.
ParserTree(h) ==
  \A i \in 1..Len(h) :
    /\ h[i].Parent # 0 => h[h[i].Parent].Type # "Text"
    /\ (h[i].Type = "Text" /\ h[i].NextSibling # 0) => h[h[i].NextSibling].Type # "Text"
    /\ IsAnchor(h[i]) => ~UnderAnchor(h, i)

\* The trees of n nodes under a <body> root that the parser can produce.
ParsedTrees(n) ==
  { h \in { TreeHeap(n, par, [i \in 1..n |-> IF i = 1 THEN ElementKind("body") ELSE kind[i]]) :
              par \in { f \in [2..n -> 1..n] : \A i \in 2..n : f[i] < i },
              kind \in [2..n -> NodeKinds] } : ParserTree(h) }

\* What html.Parse gives for notes whose <body> holds the given nodes:
\* document > html > (head, body > content).
DocTree(content) ==
  TreeHeap(4 + Len(content),
           [i \in 2..(4 + Len(content)) |-> IF i = 2 THEN 1 ELSE IF i <= 4 THEN 2 ELSE 4],
           [i \in 1..(4 + Len(content)) |->
              IF i = 1 THEN DocumentKind
              ELSE IF i = 2 THEN ElementKind("html")
              ELSE IF i = 3 THEN ElementKind("head")
              ELSE IF i = 4 THEN ElementKind("body")
              ELSE content[i - 4]])

\* ------------------------------------------------------------------ html.Render
EscapeChar(c) ==
  IF c = "&" THEN <<"&", "a", "m", "p", ";">>
  ELSE IF c = "'" THEN <<"&", "#", "3", "9", ";">>
  ELSE IF c = "<" THEN <<"&", "l", "t", ";">>
  ELSE IF c = ">" THEN <<"&", "g", "t", ";">>
  ELSE IF c = "\"" THEN <<"&", "#", "3", "4", ";">>
  ELSE IF c = "\r" THEN <<"&", "#", "1", "3", ";">>
  ELSE <<c>>

RECURSIVE Escape(_)
Escape(s) == IF s = <<>> THEN <<>> ELSE EscapeChar(Head(s)) \o Escape(Tail(s))

RECURSIVE RenderAttrs(_)
RenderAttrs(attrs) ==
  IF attrs = <<>> THEN <<>>
  ELSE <<" ">> \o Head(attrs).Key \o <<"=", "\"">> \o Escape(Head(attrs).Val) \o <<"\"">>
       \o RenderAttrs(Tail(attrs))

OpenTag(tag, attrs) == <<"<">> \o tag \o RenderAttrs(attrs) \o <<">">>
CloseTag(tag) == <<"<", "/">> \o tag \o <<">">>

\* html.Render of node and of the siblings after it, following FirstChild
\* and NextSibling.
RECURSIVE RenderChain(_, _)
RenderChain(h, node) ==
  IF node = 0 THEN <<>>
  ELSE (IF h[node].Type = "Text" THEN Escape(h[node].Data)
        ELSE IF h[node].Type = "Document" THEN RenderChain(h, h[node].FirstChild)
        ELSE OpenTag(h[node].Data, h[node].Attr) \o RenderChain(h, h[node].FirstChild)
             \o CloseTag(h[node].Data))
       \o RenderChain(h, h[node].NextSibling)

\* html.Render(buf, root)
Render(h, root) == RenderChain([h EXCEPT ![root].NextSibling = 0], root)

HasSuffix(s, suffix) ==
  /\ Len(s) >= Len(suffix)
  /\ \A i \in 1..Len(suffix) : s[Len(s) - Len(suffix) + i] = suffix[i]

TrimPrefix(s, prefix) ==
  IF HasPrefix(s, prefix) THEN SubSeq(s, Len(prefix) + 1, Len(s)) ELSE s

TrimSuffix(s, suffix) ==
  IF HasSuffix(s, suffix) THEN SubSeq(s, 1, Len(s) - Len(suffix)) ELSE s

\* The wrapper the serializer adds around the notes.
WrapperPrefix == OpenTag(TagName.html, <<>>) \o OpenTag(TagName.head, <<>>) \o CloseTag(TagName.head)
WrapperSuffix == CloseTag(TagName.html)

\* ------------------------------------------------------------------ gates
Nil == <<>>
NoErr == "nil"

Sunday == 0
Monday == 1
Tuesday == 2
Wednesday == 3
Thursday == 4
Friday == 5
Saturday == 6

WeekDays == <<Monday, Tuesday, Wednesday, Thursday, Friday>>
WeekendDays == <<Saturday, Sunday>>

Weekdays == Sunday..Saturday

\* civil.Time values within the bounds.
Times == [Hour : 0..MaxHour, Minute : 0..MaxMinute, Second : 0..MaxSecond, Nanosecond : 0..MaxNano]

\* A time-of-day string "hh:mm:ss.nnnnnnnnn" is the tuple of its four numbers.
TimeString(t) == <<t.Hour, t.Minute, t.Second, t.Nanosecond>>

\* A string civil.ParseTime rejects: hour 24.
BadTimeString == <<24, 0, 0, 0>>

TimeStrings == {TimeString(t) : t \in Times} \cup {BadTimeString}

\* civil.ParseTime(s): the time, or an error when a field is out of range.
ParseTime(s) ==
  IF s[1] \in 0..23 /\ s[2] \in 0..59 /\ s[3] \in 0..59 /\ s[4] \in 0..999999999
  THEN [t |-> [Hour |-> s[1], Minute |-> s[2], Second |-> s[3], Nanosecond |-> s[4]],
        err |-> NoErr]
  ELSE [t |-> Nil, err |-> "parsing time: out of range"]

\* The zone names time.LoadLocation knows: "" and "UTC" give UTC, "Local"
\* gives the local zone, and any other name is looked up in the zone
\* database, which holds America/Los_Angeles and no Mars/Phobos.
Zones == {"", "UTC", "Local", "America/Los_Angeles"}

\* time.LoadLocation(tz)
LoadLocation(tz) == IF tz \in Zones THEN NoErr ELSE "unknown time zone"

timeBefore(t1, t2) ==
  \/ t1.Hour < t2.Hour
  \/ (t1.Hour = t2.Hour /\ t1.Minute < t2.Minute)
  \/ (t1.Hour = t2.Hour /\ t1.Minute = t2.Minute /\ t1.Second < t2.Second)
  \/ (t1.Hour = t2.Hour /\ t1.Minute = t2.Minute /\ t1.Second = t2.Second
        /\ t1.Nanosecond < t2.Nanosecond)

\* The gate WhenBetween(tz, start, end) appends, evaluated when
\* civil.TimeOf(time.Now().In(loc)) is now.
WhenBetweenGate(tz, start, end, now) ==
  IF LoadLocation(tz) # NoErr THEN [ok |-> FALSE, err |-> LoadLocation(tz)]
  ELSE IF ParseTime(start).err # NoErr THEN [ok |-> FALSE, err |-> ParseTime(start).err]
  ELSE IF ParseTime(end).err # NoErr THEN [ok |-> FALSE, err |-> ParseTime(end).err]
  ELSE
    LET s == ParseTime(start).t
        e == ParseTime(end).t
    IN IF timeBefore(e, s)
       THEN [ok |-> timeBefore(s, now) \/ timeBefore(now, e), err |-> NoErr]
       ELSE [ok |-> timeBefore(s, now) /\ timeBefore(now, e), err |-> NoErr]

\* The gate WhenDayOfWeek(tz, days) appends, evaluated when
\* time.Now().In(loc).Weekday() is wd.
WhenDayOfWeekGate(tz, days, wd) ==
  IF LoadLocation(tz) # NoErr THEN [ok |-> FALSE, err |-> LoadLocation(tz)]
  ELSE [ok |-> \E i \in 1..Len(days) : wd = days[i], err |-> NoErr]

\* The root of a notes tree is the first node of its heap.
Root == 1

\* ------------------------------------------------------------------ collaborator
\* The remote data behind the client: the authenticated user, their task
\* list, the pages of sections of that list and the tags by name.
Me == [GID |-> "u1"]
MyUserTaskList == [GID |-> "p1"]

SectionPages ==
  << <<[GID |-> "s1", Name |-> "A"], [GID |-> "s2", Name |-> "B"]>>,
     <<[GID |-> "s3", Name |-> "A"]>> >>

TagsByName == [urgent |-> [GID |-> "g1", Name |-> "urgent"]]

\* The collaborator calls that can fail, "none" when every call succeeds.
FailPoints ==
  {"none", "GetMe", "GetMyUserTaskList", "GetSections", "GetTagsByName",
   "Render", "UpdateTask", "AddTaskToSection"}

\* What one stage invocation meets: the call that fails, and today's date
\* (civil.DateOf(time.Now())) as a day number.
Envs == [fail : FailPoints, today : {0}]

\* The collaborator call a goroutine is suspended in inside a query mutator
\* or an actor, and for GetSections the page it has asked for.  A goroutine
\* about to enter a mutator or an actor is in none.
NoWait == [call |-> "none", page |-> 0]

WaitIn(call) == [call |-> call, page |-> 0]

\* GetSections, one pass of its loop: the request for page w.page returns
\* with an error, with a NextPage (the next page is asked for) or without.
GetSectionsPage(pages, w, env) ==
  IF env.fail = "GetSections" THEN [err |-> "GetSections failed", wait |-> NoWait]
  ELSE IF w.page < Len(pages) THEN [err |-> NoErr, wait |-> [w EXCEPT !.page = @ + 1]]
  ELSE [err |-> NoErr, wait |-> NoWait]

\* GetSections: the pages' sections, appended page after page.
RECURSIVE GetSections(_)
GetSections(pages) ==
  IF pages = <<>> THEN <<>> ELSE Head(pages) \o GetSections(Tail(pages))

\* GetSectionsByName: secsByName[sec.Name] = sec for each section in turn,
\* so the last section of a name is the one kept.
GetSectionsByName(pages) ==
  LET secs == GetSections(pages)
  IN [name \in {secs[i].Name : i \in 1..Len(secs)} |->
        secs[Max({i \in 1..Len(secs) : secs[i].Name = name})]]

\* ------------------------------------------------------------------ query mutators
\* &client.SearchQuery{}
EmptyQuery ==
  [AssigneeAny |-> <<>>, SectionsAny |-> <<>>, TagsAny |-> <<>>, TagsNot |-> <<>>,
   DueOn |-> Nil, DueAfter |-> Nil, DueBefore |-> Nil, Completed |-> Nil, Due |-> Nil]

\* An exec that goes on with the query of the iteration before.
ReusedQuery(prev) == prev

\* q := &client.SearchQuery{}: the query of an iteration, prev being the
\* query the iteration before left behind.
FreshQuery(prev) == EmptyQuery

\* for _, name := range names { ... q.SectionsAny = append(q.SectionsAny, sec) }
RECURSIVE AddSections(_, _, _)
AddSections(q, names, secsByName) ==
  IF names = <<>> THEN [q |-> q, err |-> NoErr]
  ELSE IF Head(names) \notin DOMAIN secsByName THEN [q |-> q, err |-> "Section not found"]
  ELSE AddSections([q EXCEPT !.SectionsAny = Append(@, secsByName[Head(names)])],
                   Tail(names), secsByName)

\* The mutator InMyTasksSections appends, from the return of the call w it
\* is suspended in (GetMe when it is entered) to its next call or its own
\* return: the query, the error, and the call it is suspended in then.
InMyTasksSectionsMutator(names, q, w, env) ==
  CASE w.call = "none" ->
         IF env.fail = "GetMe" THEN [q |-> q, err |-> "GetMe failed", wait |-> NoWait]
         ELSE [q |-> [q EXCEPT !.AssigneeAny = Append(@, Me)], err |-> NoErr,
               wait |-> WaitIn("GetMyUserTaskList")]
    [] w.call = "GetMyUserTaskList" ->
         IF env.fail = "GetMyUserTaskList"
         THEN [q |-> q, err |-> "GetMyUserTaskList failed", wait |-> NoWait]
         ELSE [q |-> q, err |-> NoErr, wait |-> [call |-> "GetSections", page |-> 1]]
    [] w.call = "GetSections" ->
         LET g == GetSectionsPage(SectionPages, w, env)
             r == AddSections(q, names, GetSectionsByName(SectionPages))
         IN IF g.err # NoErr \/ g.wait # NoWait
            THEN [q |-> q, err |-> g.err, wait |-> g.wait]
            ELSE [q |-> r.q, err |-> r.err, wait |-> NoWait]

DueInDaysMutator(days, q, env) ==
  IF q.DueOn # Nil THEN [q |-> q, err |-> "Multiple clauses set DueOn"]
  ELSE [q |-> [q EXCEPT !.DueOn = <<env.today + days>>], err |-> NoErr]

DueInAtLeastDaysMutator(days, q, env) ==
  IF q.DueAfter # Nil THEN [q |-> q, err |-> "Multiple clauses set DueAfter"]
  ELSE [q |-> [q EXCEPT !.DueAfter = <<env.today + days>>], err |-> NoErr]

DueInAtMostDaysMutator(days, q, env) ==
  IF q.DueBefore # Nil THEN [q |-> q, err |-> "Multiple clauses set DueBefore"]
  ELSE [q |-> [q EXCEPT !.DueBefore = <<env.today + days>>], err |-> NoErr]

OnlyIncompleteMutator(q) ==
  IF q.Completed # Nil THEN [q |-> q, err |-> "Multiple clauses set Completed"]
  ELSE [q |-> [q EXCEPT !.Completed = <<FALSE>>], err |-> NoErr]

\* OnlyComplete without its check, overwriting what an earlier clause set.
OnlyCompleteOverwrites(q) == [q |-> [q EXCEPT !.Completed = <<TRUE>>], err |-> NoErr]

OnlyCompleteMutator(q) ==
  IF q.Completed # Nil THEN [q |-> q, err |-> "Multiple clauses set Completed"]
  ELSE [q |-> [q EXCEPT !.Completed = <<TRUE>>], err |-> NoErr]

\* for _, name := range names { ... append(tags, tag) }
RECURSIVE AddTags(_, _, _)
AddTags(tags, names, tagsByName) ==
  IF names = <<>> THEN [tags |-> tags, err |-> NoErr]
  ELSE IF Head(names) \notin DOMAIN tagsByName THEN [tags |-> tags, err |-> "Tag not found"]
  ELSE AddTags(Append(tags, tagsByName[Head(names)]), Tail(names), tagsByName)

\* WithTagsAnyOf without its check, adding to the tags already there.
WithTagsAnyOfAdds(names, q, env) ==
  IF env.fail = "GetTagsByName" THEN [q |-> q, err |-> "GetTagsByName failed"]
  ELSE LET r == AddTags(q.TagsAny, names, TagsByName)
       IN [q |-> [q EXCEPT !.TagsAny = r.tags], err |-> r.err]

WithTagsAnyOfMutator(names, q, env) ==
  IF Len(q.TagsAny) > 0 THEN [q |-> q, err |-> "Multiple clauses set TagsAny"]
  ELSE IF env.fail = "GetTagsByName" THEN [q |-> q, err |-> "GetTagsByName failed"]
  ELSE LET r == AddTags(q.TagsAny, names, TagsByName)
       IN [q |-> [q EXCEPT !.TagsAny = r.tags], err |-> r.err]

WithoutTagsAnyOfMutator(names, q, env) ==
  IF Len(q.TagsNot) > 0 THEN [q |-> q, err |-> "Multiple clauses set TagsNot"]
  ELSE IF env.fail = "GetTagsByName" THEN [q |-> q, err |-> "GetTagsByName failed"]
  ELSE LET r == AddTags(q.TagsNot, names, TagsByName)
       IN [q |-> [q EXCEPT !.TagsNot = r.tags], err |-> r.err]

WithoutDueMutator(q) ==
  IF q.Due # Nil THEN [q |-> q, err |-> "Multiple clauses set Due"]
  ELSE [q |-> [q EXCEPT !.Due = <<FALSE>>], err |-> NoErr]

\* A mutator that makes at most one collaborator call, from its entry to
\* its return.
MutatorReturns(r) == [q |-> r.q, err |-> r.err, wait |-> NoWait]

\* err = mut(wc, q), from the return of the call w to the mutator's next
\* call or its return.
ApplyMutator(m, q, w, env) ==
  CASE m.method = "InMyTasksSections" -> InMyTasksSectionsMutator(m.names, q, w, env)
    [] m.method = "DueInDays" -> MutatorReturns(DueInDaysMutator(m.n, q, env))
    [] m.method = "DueInAtLeastDays" -> MutatorReturns(DueInAtLeastDaysMutator(m.n, q, env))
    [] m.method = "DueInAtMostDays" -> MutatorReturns(DueInAtMostDaysMutator(m.n, q, env))
    [] m.method = "OnlyIncomplete" -> MutatorReturns(OnlyIncompleteMutator(q))
    [] m.method = "OnlyComplete" -> MutatorReturns(OnlyCompleteMutator(q))
    [] m.method = "WithTagsAnyOf" -> MutatorReturns(WithTagsAnyOfMutator(m.names, q, env))
    [] m.method = "WithoutTagsAnyOf" -> MutatorReturns(WithoutTagsAnyOfMutator(m.names, q, env))
    [] m.method = "WithoutDue" -> MutatorReturns(WithoutDueMutator(q))

\* ------------------------------------------------------------------ task filters
\* A backup filter that drops a task without assignee-section silently.
InMyTasksSectionsFilterLenient(q, t) ==
  [include |-> /\ t.AssigneeSection # Nil
               /\ \E i \in 1..Len(q.SectionsAny) :
                    q.SectionsAny[i].GID = t.AssigneeSection[1].GID,
   err |-> NoErr]

\* The backup filter InMyTasksSections appends.
InMyTasksSectionsFilter(q, t) ==
  IF t.AssigneeSection = Nil THEN [include |-> FALSE, err |-> "missing assignee"]
  ELSE [include |-> \E i \in 1..Len(q.SectionsAny) :
                      q.SectionsAny[i].GID = t.AssigneeSection[1].GID,
        err |-> NoErr]

WithUnlinkedURLFilter(t) ==
  [include |-> hasUnlinkedURL(t.ParsedHTMLNotes, Root), err |-> NoErr]

\* include, err := filter(wc, q, task)
ApplyFilter(f, q, t) ==
  CASE f.method = "InMyTasksSections" -> InMyTasksSectionsFilter(q, t)
    [] f.method = "WithUnlinkedURL" -> WithUnlinkedURLFilter(t)

\* ------------------------------------------------------------------ task actors
\* strings.TrimSuffix(strings.TrimPrefix(notes, "<html><head></head>"), "</html>")
StripWrapper(notes) == TrimSuffix(TrimPrefix(notes, WrapperPrefix), WrapperSuffix)

\* &client.Task{GID: gid, HTMLNotes: notes}: the other fields stay unset.
UpdateOf(gid, notes) ==
  [GID |-> gid, HTMLNotes |-> notes, AssigneeSection |-> Nil, ParsedHTMLNotes |-> <<>>]

\* A FixUnlinkedURL that sends the task it was given, with the new notes,
\* instead of a fresh record.
FixUnlinkedURLActorWholeTask(t, w, env) ==
  CASE w.call = "none" ->
         LET fixed == [t EXCEPT !.ParsedHTMLNotes = fixUnlinkedURL(@, Root)]
         IN IF env.fail = "Render"
            THEN [task |-> fixed, err |-> "Render failed", calls |-> <<>>, wait |-> NoWait]
            ELSE [task |-> fixed, err |-> NoErr,
                  calls |-> <<[call |-> "UpdateTask",
                               task |-> [fixed EXCEPT !.HTMLNotes =
                                           StripWrapper(Render(fixed.ParsedHTMLNotes, Root))]]>>,
                  wait |-> WaitIn("UpdateTask")]
    [] w.call = "UpdateTask" ->
         [task |-> t, err |-> IF env.fail = "UpdateTask" THEN "UpdateTask failed" ELSE NoErr,
          calls |-> <<>>, wait |-> NoWait]

\* An actor, from the return of the call w it is suspended in (none when it
\* is entered) to its next call or its own return: the task as it is then,
\* the error, the requests sent to the collaborator meanwhile, and the call
\* the actor is suspended in then.  FixUnlinkedURL rewrites the notes tree,
\* serializes it and sends the update; it returns what UpdateTask returns.
FixUnlinkedURLActor(t, w, env) ==
  CASE w.call = "none" ->
         LET fixed == [t EXCEPT !.ParsedHTMLNotes = fixUnlinkedURL(@, Root)]
         IN IF env.fail = "Render"
            THEN [task |-> fixed, err |-> "Render failed", calls |-> <<>>, wait |-> NoWait]
            ELSE [task |-> fixed, err |-> NoErr,
                  calls |-> <<[call |-> "UpdateTask",
                               task |-> UpdateOf(t.GID,
                                          StripWrapper(Render(fixed.ParsedHTMLNotes, Root)))]>>,
                  wait |-> WaitIn("UpdateTask")]
    [] w.call = "UpdateTask" ->
         [task |-> t, err |-> IF env.fail = "UpdateTask" THEN "UpdateTask failed" ELSE NoErr,
          calls |-> <<>>, wait |-> NoWait]

\* GetSectionByName once GetSections has returned: the section of the name.
GetSectionByName(pages, name) ==
  IF name \notin DOMAIN GetSectionsByName(pages)
  THEN [sec |-> Nil, err |-> "Section not found"]
  ELSE [sec |-> <<GetSectionsByName(pages)[name]>>, err |-> NoErr]

\* MoveToMyTasksSection is entered in GetMyUserTaskList, then asks for the
\* sections page by page, then sends the AddTaskToSection request.
MoveToMyTasksSectionActor(name, t, w, env) ==
  CASE w.call = "none" ->
         IF env.fail = "GetMyUserTaskList"
         THEN [task |-> t, err |-> "GetMyUserTaskList failed", calls |-> <<>>, wait |-> NoWait]
         ELSE [task |-> t, err |-> NoErr, calls |-> <<>>,
               wait |-> [call |-> "GetSections", page |-> 1]]
    [] w.call = "GetSections" ->
         LET g == GetSectionsPage(SectionPages, w, env)
             s == GetSectionByName(SectionPages, name)
         IN IF g.err # NoErr \/ g.wait # NoWait
            THEN [task |-> t, err |-> g.err, calls |-> <<>>, wait |-> g.wait]
            ELSE IF s.err # NoErr
            THEN [task |-> t, err |-> s.err, calls |-> <<>>, wait |-> NoWait]
            ELSE [task |-> t, err |-> NoErr,
                  calls |-> <<[call |-> "AddTaskToSection", task |-> t.GID,
                               section |-> s.sec[1].GID]>>,
                  wait |-> WaitIn("AddTaskToSection")]
    [] w.call = "AddTaskToSection" ->
         [task |-> t,
          err |-> IF env.fail = "AddTaskToSection" THEN "AddTaskToSection failed" ELSE NoErr,
          calls |-> <<>>, wait |-> NoWait]

PrintTasksActor(t) ==
  [task |-> t, err |-> NoErr, calls |-> <<[call |-> "Printf", task |-> t.GID]>>,
   wait |-> NoWait]

\* err = act(wc, task), from the return of the call w to the actor's next
\* call or its return.
ApplyActor(a, t, w, env) ==
  CASE a.method = "FixUnlinkedURL" -> FixUnlinkedURLActor(t, w, env)
    [] a.method = "MoveToMyTasksSection" -> MoveToMyTasksSectionActor(a.names[1], t, w, env)
    [] a.method = "PrintTasks" -> PrintTasksActor(t)

\* ------------------------------------------------------------------ gates of a rule
\* ok, err := g(wc)
ApplyGate(g, now, wd) ==
  CASE g.method = "WhenBetween" -> WhenBetweenGate(g.tz, g.start, g.end, now)
    [] g.method = "WhenDayOfWeek" -> WhenDayOfWeekGate(g.tz, g.days, wd)

\* ------------------------------------------------------------------ rule builder
\* A builder call: the method and its arguments (those it does not take
\* left empty).  The stage a call appends is recorded as the call itself.
Call(method) ==
  [method |-> method, tz |-> "", start |-> <<>>, end |-> <<>>, days |-> <<>>,
   names |-> <<>>, n |-> 0]

\* InWorkspace(name): a rule with no stages yet.
InWorkspace ==
  [gates |-> <<>>, queryMutators |-> <<>>, taskFilters |-> <<>>, taskActors |-> <<>>]

AddGate(p, c) == [p EXCEPT !.gates = Append(@, c)]
AddMutator(p, c) == [p EXCEPT !.queryMutators = Append(@, c)]
AddFilter(p, c) == [p EXCEPT !.taskFilters = Append(@, c)]
AddActor(p, c) == [p EXCEPT !.taskActors = Append(@, c)]

WhenBetween(p, c) == AddGate(p, c)
WhenDayOfWeek(p, c) == AddGate(p, c)
InMyTasksSections(p, c) == AddFilter(AddMutator(p, c), c)
DueInDays(p, c) == AddMutator(p, c)
DueInAtLeastDays(p, c) == AddMutator(p, c)
DueInAtMostDays(p, c) == AddMutator(p, c)
OnlyIncomplete(p, c) == AddMutator(p, c)
OnlyComplete(p, c) == AddMutator(p, c)
WithTagsAnyOf(p, c) == AddMutator(p, c)
WithoutTagsAnyOf(p, c) == AddMutator(p, c)
WithUnlinkedURL(p, c) == AddFilter(p, c)
WithoutDue(p, c) == AddMutator(p, c)
FixUnlinkedURL(p, c) == AddActor(p, c)
MoveToMyTasksSection(p, c) == AddActor(p, c)
PrintTasks(p, c) == AddActor(p, c)

BuilderCall(p, c) ==
  CASE c.method = "WhenBetween" -> WhenBetween(p, c)
    [] c.method = "WhenDayOfWeek" -> WhenDayOfWeek(p, c)
    [] c.method = "InMyTasksSections" -> InMyTasksSections(p, c)
    [] c.method = "DueInDays" -> DueInDays(p, c)
    [] c.method = "DueInAtLeastDays" -> DueInAtLeastDays(p, c)
    [] c.method = "DueInAtMostDays" -> DueInAtMostDays(p, c)
    [] c.method = "OnlyIncomplete" -> OnlyIncomplete(p, c)
    [] c.method = "OnlyComplete" -> OnlyComplete(p, c)
    [] c.method = "WithTagsAnyOf" -> WithTagsAnyOf(p, c)
    [] c.method = "WithoutTagsAnyOf" -> WithoutTagsAnyOf(p, c)
    [] c.method = "WithUnlinkedURL" -> WithUnlinkedURL(p, c)
    [] c.method = "WithoutDue" -> WithoutDue(p, c)
    [] c.method = "FixUnlinkedURL" -> FixUnlinkedURL(p, c)
    [] c.method = "MoveToMyTasksSection" -> MoveToMyTasksSection(p, c)
    [] c.method = "PrintTasks" -> PrintTasks(p, c)

\* InWorkspace(name).m1(...).m2(...)...: the calls applied in order.
RECURSIVE BuildFrom(_, _)
BuildFrom(p, calls) ==
  IF calls = <<>> THEN p ELSE BuildFrom(BuilderCall(p, Head(calls)), Tail(calls))

Build(calls) == BuildFrom(InWorkspace, calls)

\* ------------------------------------------------------------------ rules and tasks
SeqsUpTo(S, n) == UNION {[1..k -> S] : k \in 0..n}

GateCalls ==
  { [Call("WhenBetween") EXCEPT !.tz = "UTC", !.start = <<0, 0, 0, 1>>, !.end = <<1, 0, 0, 0>>],
    [Call("WhenBetween") EXCEPT !.tz = "UTC", !.start = BadTimeString, !.end = <<1, 0, 0, 0>>],
    [Call("WhenDayOfWeek") EXCEPT !.tz = "UTC", !.days = WeekDays],
    [Call("WhenDayOfWeek") EXCEPT !.tz = "Mars/Phobos", !.days = WeekendDays] }

MutatorCalls ==
  { [Call("InMyTasksSections") EXCEPT !.names = <<"A">>],
    [Call("InMyTasksSections") EXCEPT !.names = <<"B", "Z">>],
    [Call("DueInDays") EXCEPT !.n = 1],
    [Call("DueInAtLeastDays") EXCEPT !.n = 0],
    [Call("DueInAtMostDays") EXCEPT !.n = 7],
    Call("OnlyIncomplete"),
    Call("OnlyComplete"),
    [Call("WithTagsAnyOf") EXCEPT !.names = <<"urgent">>],
    Call("WithTagsAnyOf"),
    [Call("WithoutTagsAnyOf") EXCEPT !.names = <<"urgent">>],
    [Call("WithoutTagsAnyOf") EXCEPT !.names = <<"urgent", "later">>],
    Call("WithoutDue") }

FilterCalls ==
  { [Call("InMyTasksSections") EXCEPT !.names = <<"A">>], Call("WithUnlinkedURL") }

ActorCalls ==
  { Call("FixUnlinkedURL"),
    [Call("MoveToMyTasksSection") EXCEPT !.names = <<"B">>],
    [Call("MoveToMyTasksSection") EXCEPT !.names = <<"Z">>],
    Call("PrintTasks") }

\* The builder chains the rules are made by: every sequence of gates, of
\* query mutators, of filter-adding calls and of actors up to its bound,
\* each completed to a rule that searches and acts.
RuleCalls ==
  {g \o <<Call("OnlyIncomplete"), Call("PrintTasks")>> : g \in SeqsUpTo(GateCalls, MaxGates)}
  \cup {m \o <<Call("PrintTasks")>> : m \in SeqsUpTo(MutatorCalls, MaxMutators)}
  \cup {f \o <<Call("PrintTasks")>> : f \in SeqsUpTo(FilterCalls, MaxFilters)}
  \cup {<<Call("OnlyIncomplete")>> \o a : a \in SeqsUpTo(ActorCalls, MaxActors)}

Rules == {Build(cs) : cs \in RuleCalls}

\* A task as the search returns it.
MakeTask(gid, section, notes) ==
  [GID |-> gid, HTMLNotes |-> StripWrapper(Render(notes, Root)),
   AssigneeSection |-> section, ParsedHTMLNotes |-> notes]

Tasks ==
  { MakeTask("t1", <<[GID |-> "s3", Name |-> "A"]>>,
             DocTree(<<TextKind(JoinLines(<<Plain, URLb>>))>>)),
    MakeTask("t2", Nil, DocTree(<<TextKind(Plain)>>)),
    MakeTask("t3", <<[GID |-> "s2", Name |-> "B"]>>,
             DocTree(<<ElementKind("strong"), TextKind(URLa)>>)) }

\* wc.Search(q): any list of tasks, or an error.
SearchResults ==
  {[tasks |-> ts, err |-> NoErr] : ts \in SeqsUpTo(Tasks, MaxTasks)}
  \cup {[tasks |-> <<>>, err |-> "Search failed"]}

\* ------------------------------------------------------------------ state
VARIABLES
  periodics,      \* the registered rules
  started,        \* how many of them Loop has started
  pc,             \* where each rule's worker is
  err,            \* what the worker's last exec returned
  gi,             \* exec: the gate evaluated next
  mi,             \* exec: the query mutator applied next
  q,              \* exec: the query being built
  tasks,          \* exec: the search result
  ti, fi,         \* exec: the task being filtered and the filter applied next
  filteredTasks,  \* exec: the tasks that passed every filter so far, each
                  \* the position in tasks of the *client.Task it points to
  xi, ai,         \* exec: the task being acted on and the actor run next
  wait,           \* the call the worker's mutator or actor is suspended in
  log,            \* the stage invocations of the current iteration, in order
  calls,          \* the requests the actors of the current iteration sent
  done,           \* whether each worker's done channel is closed
  heap,     \* the notes tree being linkified
  heap0,    \* the tree as it was parsed
  fixRuns,  \* how often fixUnlinkedURL has run on heap
  detected, \* what hasUnlinkedURL answered on the parsed tree, Nil before
  gTz, gStart, gEnd,  \* the arguments of a WhenBetween gate
  gNow,     \* the local time of day the gate reads
  gOut      \* the gate's result, Nil before it is evaluated

execVars == <<gi, mi, q, tasks, ti, fi, filteredTasks, xi, ai, wait>>
ruleVars == <<periodics, started, pc, err, execVars, log, calls, done>>
linkVars == <<heap, heap0, fixRuns, detected>>
gateVars == <<gTz, gStart, gEnd, gNow, gOut>>

vars == <<ruleVars, linkVars, gateVars>>

Workers == 1..Len(periodics)

RulesIdle ==
  /\ periodics = <<>>
  /\ started = 0
  /\ pc = <<>>
  /\ err = <<>>
  /\ gi = <<>> /\ mi = <<>> /\ q = <<>> /\ tasks = <<>>
  /\ ti = <<>> /\ fi = <<>> /\ filteredTasks = <<>> /\ xi = <<>> /\ ai = <<>>
  /\ wait = <<>>
  /\ log = <<>>
  /\ calls = <<>>
  /\ done = <<>>

LinkIdle ==
  /\ heap = <<>>
  /\ heap0 = <<>>
  /\ fixRuns = 0
  /\ detected = Nil

GateIdle ==
  /\ gTz = "UTC"
  /\ gStart = <<0, 0, 0, 0>>
  /\ gEnd = <<0, 0, 0, 0>>
  /\ gNow = Nil
  /\ gOut = Nil

\* ------------------------------------------------------------------ rule workers
\* The state once the rules are registered, before Loop runs.
Registered(rules) ==
  /\ periodics = rules
  /\ started = 0
  /\ pc = [p \in 1..Len(rules) |-> "idle"]
  /\ err = [p \in 1..Len(rules) |-> NoErr]
  /\ gi = [p \in 1..Len(rules) |-> 1]
  /\ mi = [p \in 1..Len(rules) |-> 1]
  /\ q = [p \in 1..Len(rules) |-> EmptyQuery]
  /\ tasks = [p \in 1..Len(rules) |-> <<>>]
  /\ ti = [p \in 1..Len(rules) |-> 1]
  /\ fi = [p \in 1..Len(rules) |-> 1]
  /\ filteredTasks = [p \in 1..Len(rules) |-> <<>>]
  /\ xi = [p \in 1..Len(rules) |-> 1]
  /\ ai = [p \in 1..Len(rules) |-> 1]
  /\ wait = [p \in 1..Len(rules) |-> NoWait]
  /\ log = [p \in 1..Len(rules) |-> <<>>]
  /\ calls = [p \in 1..Len(rules) |-> <<>>]
  /\ done = [p \in 1..Len(rules) |-> "open"]

Init ==
  /\ \E r \in Rules : Registered(<<r>>)
  /\ LinkIdle
  /\ GateIdle

\* A stage invocation: the stage kind, its index in its list, the position
\* and GID of the task it ran on (0 and "" for none), the boolean it answered
\* ("ok" for a stage that answers none), the error it returned, and how many
\* requests the iteration's actors had sent when it returned.
Event(op, i, t, gid, res, e, sent) ==
  [op |-> op, i |-> i, t |-> t, gid |-> gid, res |-> res, err |-> e, sent |-> sent]

BoolRes(b) == IF b THEN "true" ELSE "false"

\* An exec that drops the errors of its gates, mutators, search and filters.
NeverFailed(e) == FALSE

\* if err != nil { return err }
Failed(e) == e # NoErr

\* A gate loop that goes on after a gate answered false.
GateNeverRefuses(r) == FALSE

\* if !ok { return nil }
GateRefuses(r) == ~r.ok

\* A filter loop without the break.
FilterNeverRejects(r) == FALSE

\* if !include { included = false; break }
FilterRejects(r) == ~r.include

\* An actor loop that drops the error and goes on.
IgnoreActorError(e) == FALSE

\* The actor loop's if err != nil { return err }
StopOnActorError(e) == e # NoErr

\* A loop over the n tasks from the last to the first.
ActorPassReversed(n, x) == n - x + 1

\* for _, task := range filteredTasks: the index of the task of pass x of n.
ActorPass(n, x) == x

\* A Loop that waits for each rule's worker before it starts the next.
StartAfterWait ==
  /\ started < Len(periodics)
  /\ started >= 1 => done[started] = "closed"
  /\ started' = started + 1
  /\ pc' = [pc EXCEPT ![started + 1] = "loop"]
  /\ UNCHANGED <<periodics, err, execVars, log, calls, done, linkVars, gateVars>>

\* Loop: periodic.start on the next registered rule; validate never fails,
\* so the worker goroutine starts.
Start ==
  /\ started < Len(periodics)
  /\ started' = started + 1
  /\ pc' = [pc EXCEPT ![started + 1] = "loop"]
  /\ UNCHANGED <<periodics, err, execVars, log, calls, done, linkVars, gateVars>>

\* exec returns e.
Return(p, e) ==
  /\ err' = [err EXCEPT ![p] = e]
  /\ pc' = [pc EXCEPT ![p] = "ret"]

\* loop calls exec, which first obtains the workspace client.  The query
\* of the iteration before is still what q holds: exec has not made its own.
ExecBegin(p) ==
  /\ pc[p] = "loop"
  /\ log' = [log EXCEPT ![p] = <<>>]
  /\ calls' = [calls EXCEPT ![p] = <<>>]
  /\ gi' = [gi EXCEPT ![p] = 1]
  /\ mi' = [mi EXCEPT ![p] = 1]
  /\ tasks' = [tasks EXCEPT ![p] = <<>>]
  /\ ti' = [ti EXCEPT ![p] = 1]
  /\ fi' = [fi EXCEPT ![p] = 1]
  /\ filteredTasks' = [filteredTasks EXCEPT ![p] = <<>>]
  /\ xi' = [xi EXCEPT ![p] = 1]
  /\ ai' = [ai EXCEPT ![p] = 1]
  /\ \E ok \in BOOLEAN :
       IF ok THEN pc' = [pc EXCEPT ![p] = "gates"] /\ err' = [err EXCEPT ![p] = NoErr]
       ELSE Return(p, "InWorkspace failed")
  /\ UNCHANGED <<periodics, started, q, wait, done, linkVars, gateVars>>

\* One pass of the gate loop: the next gate is evaluated at the current time
\* and weekday; after the last gate the query is created.
ExecGate(p) ==
  /\ pc[p] = "gates"
  /\ IF gi[p] > Len(periodics[p].gates)
     THEN /\ pc' = [pc EXCEPT ![p] = "mutators"]
          /\ q' = [q EXCEPT ![p] = FreshQuery(q[p])]
          /\ UNCHANGED <<err, gi, log>>
     ELSE /\ \E now \in Times, wd \in Weekdays :
               LET r == ApplyGate(periodics[p].gates[gi[p]], now, wd)
               IN /\ log' = [log EXCEPT ![p] =
                       Append(@, Event("gate", gi[p], 0, "", BoolRes(r.ok), r.err, 0))]
                  /\ IF Failed(r.err) THEN Return(p, r.err) /\ UNCHANGED gi
                     ELSE IF GateRefuses(r) THEN Return(p, NoErr) /\ UNCHANGED gi
                     ELSE gi' = [gi EXCEPT ![p] = @ + 1] /\ UNCHANGED <<pc, err>>
          /\ UNCHANGED q
  /\ UNCHANGED <<periodics, started, mi, tasks, ti, fi, filteredTasks, xi, ai, wait, calls,
                 done, linkVars, gateVars>>

\* One step of the mutator loop: the collaborator call the current mutator
\* is suspended in returns and the mutator runs on to its next call, where
\* the goroutine is suspended again, or to its return, which ends the pass.
ExecMutator(p) ==
  /\ pc[p] = "mutators"
  /\ IF mi[p] > Len(periodics[p].queryMutators)
     THEN /\ pc' = [pc EXCEPT ![p] = "search"]
          /\ UNCHANGED <<err, mi, q, wait, log>>
     ELSE \E env \in Envs :
            LET r == ApplyMutator(periodics[p].queryMutators[mi[p]], q[p], wait[p], env)
            IN /\ q' = [q EXCEPT ![p] = r.q]
               /\ wait' = [wait EXCEPT ![p] = r.wait]
               /\ IF r.wait # NoWait
                  THEN UNCHANGED <<pc, err, mi, log>>
                  ELSE /\ log' = [log EXCEPT ![p] =
                            Append(@, Event("mutator", mi[p], 0, "", "ok", r.err, 0))]
                       /\ IF Failed(r.err) THEN Return(p, r.err) /\ UNCHANGED mi
                          ELSE mi' = [mi EXCEPT ![p] = @ + 1] /\ UNCHANGED <<pc, err>>
  /\ UNCHANGED <<periodics, started, gi, tasks, ti, fi, filteredTasks, xi, ai, calls, done,
                 linkVars, gateVars>>

\* tasks, err := wc.Search(q)
ExecSearch(p) ==
  /\ pc[p] = "search"
  /\ \E r \in SearchResults :
       /\ log' = [log EXCEPT ![p] = Append(@, Event("search", 0, 0, "", "ok", r.err, 0))]
       /\ IF Failed(r.err) THEN Return(p, r.err) /\ UNCHANGED tasks
          ELSE /\ tasks' = [tasks EXCEPT ![p] = r.tasks]
               /\ pc' = [pc EXCEPT ![p] = "filters"]
               /\ UNCHANGED err
  /\ UNCHANGED <<periodics, started, gi, mi, q, ti, fi, filteredTasks, xi, ai, wait, calls,
                 done, linkVars, gateVars>>

\* One pass of the filter loops: the next filter runs on the current task;
\* a task that passed its last filter is appended to filteredTasks, which
\* then points to the same task as tasks does.
ExecFilter(p) ==
  /\ pc[p] = "filters"
  /\ IF ti[p] > Len(tasks[p])
     THEN /\ pc' = [pc EXCEPT ![p] = "actors"]
          /\ UNCHANGED <<err, ti, fi, filteredTasks, log>>
     ELSE IF fi[p] > Len(periodics[p].taskFilters)
     THEN /\ filteredTasks' = [filteredTasks EXCEPT ![p] = Append(@, ti[p])]
          /\ ti' = [ti EXCEPT ![p] = @ + 1]
          /\ fi' = [fi EXCEPT ![p] = 1]
          /\ UNCHANGED <<pc, err, log>>
     ELSE LET r == ApplyFilter(periodics[p].taskFilters[fi[p]], q[p], tasks[p][ti[p]])
          IN /\ log' = [log EXCEPT ![p] =
                  Append(@, Event("filter", fi[p], ti[p], tasks[p][ti[p]].GID,
                                  BoolRes(r.include), r.err, 0))]
             /\ IF Failed(r.err) THEN Return(p, r.err) /\ UNCHANGED <<ti, fi>>
                ELSE IF FilterRejects(r)
                THEN /\ ti' = [ti EXCEPT ![p] = @ + 1]
                     /\ fi' = [fi EXCEPT ![p] = 1]
                     /\ UNCHANGED <<pc, err>>
                ELSE fi' = [fi EXCEPT ![p] = @ + 1] /\ UNCHANGED <<pc, err, ti>>
             /\ UNCHANGED filteredTasks
  /\ UNCHANGED <<periodics, started, gi, mi, q, tasks, xi, ai, wait, calls, done, linkVars,
                 gateVars>>

\* One step of the actor loops: the collaborator call the current actor is
\* suspended in returns and the actor runs on, on the task filteredTasks
\* points to, to its next call or to its return, which ends the pass; after
\* the last task exec returns nil.
ExecActor(p) ==
  /\ pc[p] = "actors"
  /\ IF xi[p] > Len(filteredTasks[p])
     THEN /\ Return(p, NoErr)
          /\ UNCHANGED <<xi, ai, tasks, wait, log, calls>>
     ELSE IF ai[p] > Len(periodics[p].taskActors)
     THEN /\ xi' = [xi EXCEPT ![p] = @ + 1]
          /\ ai' = [ai EXCEPT ![p] = 1]
          /\ UNCHANGED <<pc, err, tasks, wait, log, calls>>
     ELSE \E env \in Envs :
            LET at == ActorPass(Len(filteredTasks[p]), xi[p])
                ptr == filteredTasks[p][at]
                task == tasks[p][ptr]
                r == ApplyActor(periodics[p].taskActors[ai[p]], task, wait[p], env)
            IN /\ tasks' = [tasks EXCEPT ![p][ptr] = r.task]
               /\ calls' = [calls EXCEPT ![p] = @ \o r.calls]
               /\ wait' = [wait EXCEPT ![p] = r.wait]
               /\ IF r.wait # NoWait
                  THEN UNCHANGED <<pc, err, ai, log>>
                  ELSE /\ log' = [log EXCEPT ![p] =
                            Append(@, Event("actor", ai[p], at, task.GID, "ok", r.err,
                                            Len(calls[p]) + Len(r.calls)))]
                       /\ IF StopOnActorError(r.err) THEN Return(p, r.err) /\ UNCHANGED ai
                          ELSE ai' = [ai EXCEPT ![p] = @ + 1] /\ UNCHANGED <<pc, err>>
               /\ UNCHANGED xi
  /\ UNCHANGED <<periodics, started, gi, mi, q, ti, fi, filteredTasks, done, linkVars, gateVars>>

\* A loop that breaks out when exec fails.
LoopStopsOnError(e) == e = NoErr

\* Whether loop goes round again after exec returned e: the for loop has no
\* exit, an error is printed and nothing else.
LoopContinues(e) == TRUE

\* exec has returned to loop: the next iteration starts; close(p.done)
\* follows the loop.
LoopReturn(p) ==
  /\ pc[p] = "ret"
  /\ IF LoopContinues(err[p])
     THEN pc' = [pc EXCEPT ![p] = "loop"] /\ UNCHANGED done
     ELSE pc' = [pc EXCEPT ![p] = "exited"] /\ done' = [done EXCEPT ![p] = "closed"]
  /\ UNCHANGED <<periodics, started, err, execVars, log, calls, linkVars, gateVars>>

Next ==
  \/ Start
  \/ \E p \in Workers : ExecBegin(p)
  \/ \E p \in Workers : ExecGate(p)
  \/ \E p \in Workers : ExecMutator(p)
  \/ \E p \in Workers : ExecSearch(p)
  \/ \E p \in Workers : ExecFilter(p)
  \/ \E p \in Workers : ExecActor(p)
  \/ \E p \in Workers : LoopReturn(p)

Spec == Init /\ [][Next]_vars

\* The Go scheduler keeps running the started worker, and every collaborator
\* call it makes returns.
FairSpec == Spec /\ WF_vars(Next)

\* ------------------------------------------------------------------ two rules
\* A rule that fails in every iteration, and rules that can succeed.
FailingRule == Build(<<Call("OnlyIncomplete"), Call("OnlyComplete"), Call("PrintTasks")>>)

WorkingRules ==
  { Build(<<Call("OnlyIncomplete"), Call("PrintTasks")>>),
    Build(<<[Call("InMyTasksSections") EXCEPT !.names = <<"A">>], Call("FixUnlinkedURL")>>) }

\* Two rules registered, the failing one first or second.
PairInit ==
  /\ \E r \in WorkingRules : Registered(<<FailingRule, r>>) \/ Registered(<<r, FailingRule>>)
  /\ LinkIdle
  /\ GateIdle

\* A step of the goroutine go p.loop(client) of rule p.
WorkerNext(p) ==
  \/ ExecBegin(p)
  \/ ExecGate(p)
  \/ ExecMutator(p)
  \/ ExecSearch(p)
  \/ ExecFilter(p)
  \/ ExecActor(p)
  \/ LoopReturn(p)

PairSpec == PairInit /\ [][Next]_vars

\* The scheduler keeps running Loop and each started goroutine, and every
\* collaborator call returns.
PairFairSpec == PairSpec /\ WF_vars(Start) /\ \A p \in 1..2 : WF_vars(WorkerNext(p))

\* ------------------------------------------------------------------ C1
\* exec has returned (the iteration is over) for worker p.
Returned(p) == pc[p] \in {"ret", "loop"} /\ started >= p

EventsOf(p, op) == SelectSeq(log[p], LAMBDA e : e.op = op)

\* The i-th surviving task: the task filteredTasks[i] points to.
TaskAt(p, i) == tasks[p][filteredTasks[p][i]]

\* C1: the actor invocations of an iteration run task by task in the order
\* of the surviving tasks and, within a task, actor by actor in declaration
\* order: the j-th invocation is actor ((j-1) mod k)+1 on task ((j-1) div k)+1
\* of k actors; an iteration that returns nil after its search has invoked
\* every actor on every surviving task.
C1_ActorOrder ==
  \A p \in Workers :
    LET ev == EventsOf(p, "actor")
        k == Len(periodics[p].taskActors)
    IN /\ \A j \in 1..Len(ev) :
            /\ ev[j].t = ((j - 1) \div k) + 1
            /\ ev[j].i = ((j - 1) % k) + 1
            /\ ev[j].t <= Len(filteredTasks[p])
            /\ ev[j].gid = TaskAt(p, ev[j].t).GID
       /\ (Returned(p) /\ err[p] = NoErr /\ EventsOf(p, "search") # <<>>)
            => Len(ev) = k * Len(filteredTasks[p])

\* Two actors have each run on two different surviving tasks.
C1_Witness ==
  \E p \in Workers :
    /\ Len(EventsOf(p, "actor")) = 4
    /\ Len(periodics[p].taskActors) = 2
    /\ Len(filteredTasks[p]) = 2
    /\ TaskAt(p, 1).GID # TaskAt(p, 2).GID
    /\ Returned(p)

\* ------------------------------------------------------------------ C2
\* C2: the worker never leaves its loop: its done channel is never closed,
\* and whenever exec has returned, with an error or without, the loop comes
\* round to call exec again.
C2_LoopForever ==
  /\ [](\A p \in Workers : done[p] = "open" /\ pc[p] # "exited")
  /\ \A e \in {TRUE, FALSE} :
       ((pc[1] = "ret" /\ (err[1] = NoErr) = e) ~> (pc[1] = "loop"))
  /\ []<>(pc[1] = "loop")

\* The loop stands at its head again after an iteration that failed.
C2_Witness ==
  \E p \in Workers : pc[p] = "loop" /\ err[p] # NoErr /\ log[p] # <<>> /\ done[p] = "open"

\* ------------------------------------------------------------------ C3
\* The request a successful actor sends.
CallName(method) ==
  CASE method = "FixUnlinkedURL" -> "UpdateTask"
    [] method = "MoveToMyTasksSection" -> "AddTaskToSection"
    [] method = "PrintTasks" -> "Printf"

\* C3: an actor invocation that returns an error is the last stage
\* invocation of its iteration and exec returns its error; the requests the
\* earlier, successful actor invocations sent are all still among the
\* iteration's requests, in order.
C3_ActorErrorAborts ==
  \A p \in Workers :
    \A j \in 1..Len(log[p]) :
      LET e == log[p][j]
      IN e.op = "actor" =>
           /\ e.sent <= Len(calls[p])
           /\ e.err # NoErr => (j = Len(log[p]) /\ Returned(p) /\ err[p] = e.err)
           /\ e.err = NoErr =>
                /\ e.sent >= 1
                /\ calls[p][e.sent].call = CallName(periodics[p].taskActors[e.i].method)
                /\ (IF calls[p][e.sent].call = "UpdateTask"
                    THEN calls[p][e.sent].task.GID ELSE calls[p][e.sent].task) = e.gid
                /\ \A k \in 1..(j - 1) : log[p][k].op = "actor" => log[p][k].sent < e.sent

\* The first actor failed on the second of two tasks, after both actors ran
\* on the first.
C3_Witness ==
  \E p \in Workers :
    /\ Returned(p)
    /\ Len(filteredTasks[p]) = 2
    /\ Len(periodics[p].taskActors) = 2
    /\ Len(EventsOf(p, "actor")) = 3
    /\ log[p][Len(log[p])].op = "actor"
    /\ log[p][Len(log[p])].err # NoErr
    /\ Len(calls[p]) >= 2

\* ------------------------------------------------------------------ C4
\* C4: gates run in declaration order as a short-circuit AND: the j-th stage
\* invocation of an iteration with at least j gates is gate j; a gate that
\* answers false or fails is the last invocation of its iteration, and exec
\* returns nil for false and the gate's error for a failure; any other stage
\* runs only after every gate answered true.
C4_GatesShortCircuit ==
  \A p \in Workers :
    /\ \A j \in 1..Len(log[p]) :
         LET e == log[p][j]
         IN /\ j <= Len(periodics[p].gates) => (e.op = "gate" /\ e.i = j)
            /\ j > Len(periodics[p].gates) => e.op # "gate"
            /\ (e.op = "gate" /\ (e.err # NoErr \/ e.res = "false")) =>
                 (j = Len(log[p]) /\ Returned(p) /\ err[p] = e.err)
    /\ pc[p] \in {"mutators", "search", "filters", "actors"} =>
         /\ Len(log[p]) >= Len(periodics[p].gates)
         /\ \A j \in 1..Len(periodics[p].gates) :
              log[p][j].res = "true" /\ log[p][j].err = NoErr

\* The first of two gates answered false and the iteration ended without
\* error.
C4_Witness ==
  \E p \in Workers :
    /\ Len(periodics[p].gates) = 2
    /\ pc[p] = "ret"
    /\ Len(log[p]) = 1
    /\ log[p][1].op = "gate" /\ log[p][1].res = "false" /\ log[p][1].err = NoErr
    /\ err[p] = NoErr

\* ------------------------------------------------------------------ C5
\* The singular query field a mutator sets, "" for a mutator that sets none.
SingularField(m) ==
  CASE m.method = "DueInDays" -> "DueOn"
    [] m.method = "DueInAtLeastDays" -> "DueAfter"
    [] m.method = "DueInAtMostDays" -> "DueBefore"
    [] m.method \in {"OnlyIncomplete", "OnlyComplete"} -> "Completed"
    [] m.method = "WithoutDue" -> "Due"
    [] OTHER -> ""

\* The values the mutator may give its field.
SingularValues(m) ==
  CASE m.method \in {"DueInDays", "DueInAtLeastDays", "DueInAtMostDays"} ->
         {<<env.today + m.n>> : env \in Envs}
    [] m.method = "OnlyIncomplete" -> {<<FALSE>>}
    [] m.method = "OnlyComplete" -> {<<TRUE>>}
    [] m.method = "WithoutDue" -> {<<FALSE>>}

\* The first mutator of ms that sets field f.
FirstSetter(ms, f) == Min({k \in 1..Len(ms) : SingularField(ms[k]) = f})

\* C5: a mutator that sets a singular field fails exactly when an earlier
\* mutator of the rule set the same field; the field then keeps the value
\* the first one gave it, exec returns the error and no search is made.
C5_SingularOnce ==
  \A p \in Workers :
    \A j \in 1..Len(log[p]) :
      LET e == log[p][j]
          ms == periodics[p].queryMutators
          f == SingularField(ms[e.i])
      IN (e.op = "mutator" /\ f # "") =>
           /\ (e.err # NoErr) <=> (\E k \in 1..(e.i - 1) : SingularField(ms[k]) = f)
           /\ q[p][f] \in SingularValues(ms[FirstSetter(ms, f)])
           /\ e.err # NoErr =>
                /\ j = Len(log[p])
                /\ Returned(p)
                /\ err[p] = e.err
                /\ EventsOf(p, "search") = <<>>

\* OnlyComplete failed after OnlyIncomplete, and the query still asks for
\* incomplete tasks.
C5_Witness ==
  \E p \in Workers :
    /\ Len(periodics[p].queryMutators) = 2
    /\ periodics[p].queryMutators[1].method = "OnlyIncomplete"
    /\ periodics[p].queryMutators[2].method = "OnlyComplete"
    /\ pc[p] = "ret"
    /\ err[p] = "Multiple clauses set Completed"
    /\ q[p].Completed = <<FALSE>>

\* ------------------------------------------------------------------ C6
AdditiveMethods == {"InMyTasksSections", "WithTagsAnyOf", "WithoutTagsAnyOf"}

MultipleClauses == {"Multiple clauses set TagsAny", "Multiple clauses set TagsNot"}

\* C6 as claimed: no mutator that adds to a set-valued field fails because
\* the field already holds something.
C6_AllSetFieldsAdditive ==
  \A p \in Workers :
    \A j \in 1..Len(log[p]) :
      (log[p][j].op = "mutator"
         /\ periodics[p].queryMutators[log[p][j].i].method \in AdditiveMethods)
        => log[p][j].err \notin MultipleClauses

\* The sections the names resolve to, in order.
RECURSIVE ResolveSections(_)
ResolveSections(names) ==
  IF names = <<>> THEN <<>>
  ELSE <<GetSectionsByName(SectionPages)[Head(names)]>> \o ResolveSections(Tail(names))

\* What the InMyTasksSections mutators among ms[1..n] add to SectionsAny.
RECURSIVE SectionsAdded(_, _)
SectionsAdded(ms, n) ==
  IF n = 0 THEN <<>>
  ELSE SectionsAdded(ms, n - 1)
       \o (IF ms[n].method = "InMyTasksSections" THEN ResolveSections(ms[n].names) ELSE <<>>)

TagsField(method) == IF method = "WithTagsAnyOf" THEN "TagsAny" ELSE "TagsNot"

\* C6 amended: assignees and sections-any are additive (InMyTasksSections
\* never fails because they are non-empty, and once every mutator has
\* succeeded they hold one assignee per application and every application's
\* sections in order, duplicates included); tags-any and tags-not are not:
\* WithTagsAnyOf / WithoutTagsAnyOf fails with "Multiple clauses set ..."
\* exactly when an earlier successful application of the same method added
\* at least one tag, and the field then keeps the earlier tags.
C6_OnlySectionsAdditive ==
  \A p \in Workers :
    LET ms == periodics[p].queryMutators
    IN /\ \A j \in 1..Len(log[p]) :
            LET e == log[p][j]
            IN e.op = "mutator" =>
                 /\ ms[e.i].method = "InMyTasksSections" =>
                      e.err \in {NoErr, "GetMe failed", "GetMyUserTaskList failed",
                                 "GetSections failed", "Section not found"}
                 /\ ms[e.i].method \in {"WithTagsAnyOf", "WithoutTagsAnyOf"} =>
                      /\ (e.err \in MultipleClauses) <=>
                           (\E k \in 1..(e.i - 1) :
                              ms[k].method = ms[e.i].method /\ ms[k].names # <<>>)
                      /\ e.err \in MultipleClauses =>
                           \E k \in 1..(e.i - 1) :
                             /\ ms[k].method = ms[e.i].method
                             /\ Len(q[p][TagsField(ms[e.i].method)]) = Len(ms[k].names)
       /\ pc[p] \in {"search", "filters", "actors"} =>
            /\ q[p].SectionsAny = SectionsAdded(ms, Len(ms))
            /\ q[p].AssigneeAny =
                 [k \in 1..Cardinality({i \in 1..Len(ms) : ms[i].method = "InMyTasksSections"})
                    |-> Me]

\* InMyTasksSections was applied twice and the query holds both sections.
C6_Witness ==
  \E p \in Workers :
    /\ Len(periodics[p].queryMutators) = 2
    /\ \A i \in 1..2 : periodics[p].queryMutators[i].method = "InMyTasksSections"
    /\ pc[p] = "search"
    /\ Len(q[p].SectionsAny) = 2
    /\ Len(q[p].AssigneeAny) = 2

\* ------------------------------------------------------------------ C7
\* Every filter of fs answers true for task t, none with an error.
PassesAll(fs, qq, t) ==
  \A i \in 1..Len(fs) : ApplyFilter(fs[i], qq, t).include /\ ApplyFilter(fs[i], qq, t).err = NoErr

\* C7: once the filter phase has ended without error, the surviving tasks
\* are the tasks of the search result that pass every filter, in the search
\* result's order; for each task the filters run in declaration order up to
\* the first that answers false.
C7_FilterSubsequence ==
  \A p \in Workers :
    LET fe == EventsOf(p, "filter")
        fs == periodics[p].taskFilters
    IN /\ (pc[p] = "actors" /\ xi[p] = 1 /\ ai[p] = 1 /\ wait[p] = NoWait) =>
            /\ [i \in 1..Len(filteredTasks[p]) |-> TaskAt(p, i)]
                 = SelectSeq(tasks[p], LAMBDA t : PassesAll(fs, q[p], t))
            /\ \A i \in 1..(Len(filteredTasks[p]) - 1) :
                 filteredTasks[p][i] < filteredTasks[p][i + 1]
       /\ \A j \in 1..Len(fe) :
            /\ j = 1 => (fe[j].t = 1 /\ fe[j].i = 1)
            /\ fe[j].gid = tasks[p][fe[j].t].GID
            /\ j < Len(fe) =>
                 IF fe[j].res = "true" /\ fe[j].i < Len(fs)
                 THEN fe[j + 1].t = fe[j].t /\ fe[j + 1].i = fe[j].i + 1
                 ELSE fe[j + 1].t = fe[j].t + 1 /\ fe[j + 1].i = 1

\* Of two tasks returned, the first was rejected by the first of two filters
\* and the second passed both.
C7_Witness ==
  \E p \in Workers :
    /\ pc[p] = "actors"
    /\ Len(periodics[p].taskFilters) = 2
    /\ Len(tasks[p]) = 2
    /\ Len(filteredTasks[p]) = 1
    /\ filteredTasks[p][1] = 2
    /\ xi[p] = 1 /\ ai[p] = 1 /\ wait[p] = NoWait
    /\ Len(EventsOf(p, "filter")) = 3
    /\ EventsOf(p, "filter")[1].res = "false"

\* ------------------------------------------------------------------ C8
\* C8: the filter InMyTasksSections adds returns an error for a task without
\* an assignee-section, and exec returns that error; for a task with one it
\* answers true iff the section's GID is the GID of a section of the query's
\* SectionsAny, and false otherwise.
C8_SectionFilter ==
  \A p \in Workers :
    \A j \in 1..Len(log[p]) :
      LET e == log[p][j]
      IN (e.op = "filter" /\ periodics[p].taskFilters[e.i].method = "InMyTasksSections") =>
           IF tasks[p][e.t].AssigneeSection = Nil
           THEN e.err # NoErr /\ j = Len(log[p]) /\ Returned(p) /\ err[p] = e.err
           ELSE /\ e.err = NoErr
                /\ (e.res = "true") <=>
                     (tasks[p][e.t].AssigneeSection[1].GID
                        \in {q[p].SectionsAny[i].GID : i \in 1..Len(q[p].SectionsAny)})
                /\ e.res \in {"true", "false"}

\* The filter has failed on a task without section after answering true for
\* a task of a requested section.
C8_Witness ==
  \E p \in Workers :
    /\ pc[p] = "ret"
    /\ Len(tasks[p]) = 2
    /\ tasks[p][2].AssigneeSection = Nil
    /\ Len(log[p]) >= 2
    /\ log[p][Len(log[p])].op = "filter"
    /\ log[p][Len(log[p])].err = "missing assignee"
    /\ log[p][Len(log[p]) - 1].op = "filter"
    /\ log[p][Len(log[p]) - 1].res = "true"
    /\ err[p] = "missing assignee"

\* ------------------------------------------------------------------ gate runs
GateInit ==
  /\ gTz \in {"", "UTC", "Mars/Phobos"}
  /\ gStart \in TimeStrings
  /\ gEnd \in TimeStrings
  /\ gNow \in Times
  /\ gOut = Nil
  /\ LinkIdle
  /\ RulesIdle

EvalWhenBetween ==
  /\ gOut = Nil
  /\ gNow # Nil
  /\ gOut' = <<WhenBetweenGate(gTz, gStart, gEnd, gNow)>>
  /\ UNCHANGED <<gTz, gStart, gEnd, gNow, linkVars, ruleVars>>

GateNext == EvalWhenBetween

GateSpec == GateInit /\ [][GateNext]_vars

\* t1 is earlier in the day than t2: the first field that differs decides.
TimeLT(t1, t2) ==
  IF t1.Hour # t2.Hour THEN t1.Hour < t2.Hour
  ELSE IF t1.Minute # t2.Minute THEN t1.Minute < t2.Minute
  ELSE IF t1.Second # t2.Second THEN t1.Second < t2.Second
  ELSE t1.Nanosecond < t2.Nanosecond

\* now lies in [start, end), the interval wrapping past midnight when end is
\* before start.
InWindow(s, e, now) ==
  IF TimeLT(e, s)
  THEN ~TimeLT(now, s) \/ TimeLT(now, e)
  ELSE ~TimeLT(now, s) /\ TimeLT(now, e)

\* C9: for valid start, end and now the window gate answers true iff now
\* lies in the half-open interval [start, end) (wrapping past midnight when
\* end is before start), so now = start gives true and now = end gives false.
C9_WindowHalfOpen ==
  (gOut # Nil /\ gOut[1].err = NoErr) =>
    (gOut[1].ok <=> InWindow(ParseTime(gStart).t, ParseTime(gEnd).t, gNow))

\* ------------------------------------------------------------------ linkifier runs
LinkInit ==
  /\ \E n \in 1..MaxNodes : heap \in ParsedTrees(n)
  /\ heap0 = heap
  /\ fixRuns = 0
  /\ detected = Nil
  /\ GateIdle
  /\ RulesIdle

\* WithUnlinkedURL's filter: hasUnlinkedURL(t.ParsedHTMLNotes)
Detect ==
  /\ fixRuns = 0
  /\ heap # <<>>
  /\ detected = Nil
  /\ detected' = <<hasUnlinkedURL(heap, Root)>>
  /\ UNCHANGED <<heap, heap0, fixRuns, gateVars, ruleVars>>

\* FixUnlinkedURL's actor: fixUnlinkedURL(t.ParsedHTMLNotes)
Fix ==
  /\ fixRuns < MaxFixRuns
  /\ heap # <<>>
  /\ heap' = fixUnlinkedURL(heap, Root)
  /\ fixRuns' = fixRuns + 1
  /\ UNCHANGED <<heap0, detected, gateVars, ruleVars>>

LinkNext == Detect \/ Fix

LinkSpec == LinkInit /\ [][LinkNext]_vars

\* ------------------------------------------------------------------ C10
\* The nodes reached from node by FirstChild and NextSibling links without
\* entering the subtree of an <a> element.
RECURSIVE OutsideAnchors(_, _)
OutsideAnchors(h, node) ==
  IF node = 0 THEN {}
  ELSE {node} \cup OutsideAnchors(h, h[node].NextSibling)
              \cup (IF IsAnchor(h[node]) THEN {} ELSE OutsideAnchors(h, h[node].FirstChild))

\* C10: after fixUnlinkedURL has run, no text node outside every <a> subtree
\* (the following siblings of an existing <a> included) has a line that
\* begins with http:// or https://.
C10_NoBareURLLeft ==
  fixRuns >= 1 => \A n \in OutsideAnchors(heap, Root) : ~nodeHasUnlinkedURL(heap[n])

\* ------------------------------------------------------------------ C11
\* The nodes from node on along the NextSibling links.
RECURSIVE SiblingChain(_, _)
SiblingChain(h, node) ==
  IF node = 0 THEN <<>> ELSE <<node>> \o SiblingChain(h, h[node].NextSibling)

\* <body> holding one text node with the lines "see http://a", "x" and
\* "https://b".
ThreeLineTree ==
  TreeHeap(2, [i \in 2..2 |-> 1],
           [i \in 1..2 |-> IF i = 1 THEN ElementKind("body")
                           ELSE TextKind(JoinLines(<<MidLine, Plain, URLb>>))])

\* node is an <a> whose only attribute is href = url and whose only child is
\* the text url.
IsLinkTo(h, node, url) ==
  /\ IsAnchor(h[node])
  /\ h[node].Attr = <<[Key |-> Href, Val |-> url]>>
  /\ h[node].FirstChild # 0
  /\ h[h[node].FirstChild].Type = "Text"
  /\ h[h[node].FirstChild].Data = url
  /\ h[h[node].FirstChild].NextSibling = 0

IsTextOf(h, node, data) ==
  h[node].Type = "Text" /\ h[node].Data = data /\ h[node].FirstChild = 0

\* <a href="url">url</a>
LinkMarkup(url) == OpenTag(TagA, <<[Key |-> Href, Val |-> url]>>) \o url \o CloseTag(TagA)

\* C11 as claimed: of the three lines the first and the third become
\* anchors, the second stays text and both newline nodes are kept.
C11_Lines1And3Linked ==
  (heap0 = ThreeLineTree /\ fixRuns >= 1) =>
    LET ch == SiblingChain(heap, heap[2].NextSibling)
    IN /\ Len(ch) = 5
       /\ IsLinkTo(heap, ch[1], MidLine)
       /\ IsTextOf(heap, ch[2], <<NL>>)
       /\ IsTextOf(heap, ch[3], Plain)
       /\ IsTextOf(heap, ch[4], <<NL>>)
       /\ IsLinkTo(heap, ch[5], URLb)

\* C11 amended: the first line, whose URL follows other characters, stays
\* text like the second; only the third becomes an anchor with its text as
\* href; the emptied node is followed by the three line nodes with a newline
\* node between each two, and the output is the original text with the
\* third line wrapped in <a href>.
C11_OnlyLine3Linked ==
  (heap0 = ThreeLineTree /\ fixRuns >= 1) =>
    LET ch == SiblingChain(heap, heap[2].NextSibling)
    IN /\ IsTextOf(heap, 2, <<>>)
       /\ Len(ch) = 5
       /\ IsTextOf(heap, ch[1], MidLine)
       /\ IsTextOf(heap, ch[2], <<NL>>)
       /\ IsTextOf(heap, ch[3], Plain)
       /\ IsTextOf(heap, ch[4], <<NL>>)
       /\ IsLinkTo(heap, ch[5], URLb)
       /\ Render(heap, Root) =
            OpenTag(TagName.body, <<>>) \o MidLine \o <<NL>> \o Plain \o <<NL>>
              \o LinkMarkup(URLb) \o CloseTag(TagName.body)

\* fixUnlinkedURL has run on the three-line text and changed the tree.
C11_Witness == heap0 = ThreeLineTree /\ fixRuns = 1 /\ heap # heap0

\* ------------------------------------------------------------------ C12
\* C12: a run of fixUnlinkedURL on a tree it has already run on changes
\* nothing: no node is split, converted or added.
C12_Idempotent == [][(fixRuns >= 1 /\ fixRuns' = fixRuns + 1) => heap' = heap]_vars

\* fixUnlinkedURL has run twice on a tree that its first run changed.
C12_Witness == fixRuns = 2 /\ heap # heap0

\* ------------------------------------------------------------------ C13
\* The nodes fixUnlinkedURL processes: those it is called on that are
\* neither nil nor an <a>.
RECURSIVE Visited(_, _)
Visited(h, node) ==
  IF node = 0 \/ IsAnchor(h[node]) THEN {}
  ELSE {node} \cup Visited(h, h[node].FirstChild) \cup Visited(h, h[node].NextSibling)

\* C13: hasUnlinkedURL answers true on a tree iff fixUnlinkedURL changes the
\* tree, which is iff a node the linkifier processes has a URL line; and
\* hasUnlinkedURL itself leaves the tree as it was.
C13_DetectionAgrees ==
  /\ (detected # Nil /\ fixRuns = 0) => heap = heap0
  /\ (detected # Nil /\ fixRuns >= 1) =>
       /\ detected[1] <=> (heap # heap0)
       /\ detected[1] <=> (\E n \in Visited(heap0, Root) : nodeHasUnlinkedURL(heap0[n]))

\* hasUnlinkedURL answered true for a URL that follows an element, and
\* fixUnlinkedURL then changed the tree.
C13_Witness ==
  /\ detected = <<TRUE>>
  /\ fixRuns = 1
  /\ heap # heap0
  /\ ~nodeHasUnlinkedURL(heap0[heap0[Root].FirstChild])

\* ------------------------------------------------------------------ C18
\* The line begins with http:// or https://.
BeginsWithScheme(line) ==
  \/ (Len(line) >= 7 /\ SubSeq(line, 1, 7) = <<"h", "t", "t", "p", ":", "/", "/">>)
  \/ (Len(line) >= 8 /\ SubSeq(line, 1, 8) = <<"h", "t", "t", "p", "s", ":", "/", "/">>)

\* The nodes from node on along the NextSibling links, up to stop.
RECURSIVE ChainUntil(_, _, _)
ChainUntil(h, node, stop) ==
  IF node = 0 \/ node = stop THEN <<>>
  ELSE <<node>> \o ChainUntil(h, h[node].NextSibling, stop)

\* The text nodes the linkifier splits: those it processes that have a line
\* beginning with a scheme.
SplitNodes(h) ==
  { n \in Visited(h, Root) :
      /\ h[n].Type = "Text"
      /\ \E i \in 1..Len(SplitLines(h[n].Data)) : BeginsWithScheme(SplitLines(h[n].Data)[i]) }

\* C18: a line becomes an anchor only if the line itself begins with http://
\* or https://.  Each split text node is emptied and followed, up to its old
\* next sibling, by one node per line with a newline node between each two;
\* the node of a line is an anchor, with the line as href and as its only
\* child text, iff the line begins with a scheme, and the line as plain text
\* otherwise; no other node of the tree is changed.
C18_OnlyURLLinesLinked ==
  fixRuns >= 1 =>
    /\ \A n \in 1..Len(heap0) :
         IF n \in SplitNodes(heap0)
         THEN LET lines == SplitLines(heap0[n].Data)
                  ch == ChainUntil(heap, heap[n].NextSibling, heap0[n].NextSibling)
              IN /\ IsTextOf(heap, n, <<>>)
                 /\ Len(ch) = 2 * Len(lines) - 1
                 /\ \A k \in 1..Len(lines) :
                      IF BeginsWithScheme(lines[k])
                      THEN IsLinkTo(heap, ch[2 * k - 1], lines[k])
                      ELSE IsTextOf(heap, ch[2 * k - 1], lines[k])
                 /\ \A k \in 1..(Len(lines) - 1) : IsTextOf(heap, ch[2 * k], <<NL>>)
         ELSE heap[n] = heap0[n]
    /\ \A n \in (Len(heap0) + 1)..Len(heap) :
         IsAnchor(heap[n]) =>
           /\ Len(heap[n].Attr) = 1
           /\ IsLinkTo(heap, n, heap[n].Attr[1].Val)
           /\ BeginsWithScheme(heap[n].Attr[1].Val)
           /\ \A k \in 1..Len(heap[n].Attr[1].Val) : heap[n].Attr[1].Val[k] # NL

\* fixUnlinkedURL has run on a tree with a text node whose first line is
\* plain and whose second is a URL, and on one whose URL is in mid-line.
C18_Witness ==
  /\ fixRuns = 1
  /\ \E n \in SplitNodes(heap0) : heap0[n].Data = JoinLines(<<Plain, URLb>>)
  /\ \E n \in Visited(heap0, Root) : heap0[n].Type = "Text" /\ heap0[n].Data = MidLine

\* ------------------------------------------------------------------ C19
\* The text of node, of its subtree and of the siblings after it, in
\* document order along the FirstChild and NextSibling links.
RECURSIVE TextContent(_, _)
TextContent(h, node) ==
  IF node = 0 THEN <<>>
  ELSE (IF h[node].Type = "Text" THEN h[node].Data ELSE TextContent(h, h[node].FirstChild))
       \o TextContent(h, h[node].NextSibling)

\* The element nodes among the first n nodes of the heap, each with the
\* element it lies in, in document order from node on.
RECURSIVE ElementsIn(_, _, _, _)
ElementsIn(h, node, parent, n) ==
  IF node = 0 THEN <<>>
  ELSE (IF h[node].Type = "Element" /\ node <= n THEN <<<<node, parent>>>> ELSE <<>>)
       \o ElementsIn(h, h[node].FirstChild, node, n)
       \o ElementsIn(h, h[node].NextSibling, parent, n)

\* C19: fixUnlinkedURL keeps everything but the anchors it adds: the text of
\* the tree in document order is the same, newlines included; every <a> that
\* was there and every node below one is unchanged; and the elements that
\* were there keep their order and their nesting.
C19_ContentPreserved ==
  fixRuns >= 1 =>
    /\ TextContent(heap, Root) = TextContent(heap0, Root)
    /\ \A n \in 1..Len(heap0) :
         (IsAnchor(heap0[n]) \/ UnderAnchor(heap0, n)) => heap[n] = heap0[n]
    /\ ElementsIn(heap, Root, 0, Len(heap0)) = ElementsIn(heap0, Root, 0, Len(heap0))

\* fixUnlinkedURL has split a text node of several lines in a tree that
\* holds an <a> already.
C19_Witness ==
  /\ fixRuns = 1
  /\ \E n \in SplitNodes(heap0) : Len(SplitLines(heap0[n].Data)) >= 2
  /\ \E n \in 1..Len(heap0) : IsAnchor(heap0[n])
  /\ Len(heap) > Len(heap0)

\* ------------------------------------------------------------------ C20
\* The five links of every node of the tree agree: a first child and a next
\* sibling point back, the children of a node have it as parent, and the
\* last child is the end of the child chain.
LinksAgree(h) ==
  \A n \in 1..Len(h) :
    /\ h[n].FirstChild # 0 =>
         h[h[n].FirstChild].Parent = n /\ h[h[n].FirstChild].PrevSibling = 0
    /\ h[n].NextSibling # 0 =>
         h[h[n].NextSibling].PrevSibling = n /\ h[h[n].NextSibling].Parent = h[n].Parent
    /\ h[n].PrevSibling # 0 => h[h[n].PrevSibling].NextSibling = n
    /\ (h[n].FirstChild = 0) <=> (h[n].LastChild = 0)
    /\ h[n].FirstChild # 0 =>
         LET ch == SiblingChain(h, h[n].FirstChild) IN h[n].LastChild = ch[Len(ch)]
    /\ h[n].Parent # 0 =>
         \E k \in 1..Len(SiblingChain(h, h[h[n].Parent].FirstChild)) :
           SiblingChain(h, h[h[n].Parent].FirstChild)[k] = n

\* C20: after fixUnlinkedURL has run on a tree whose links agree, the links
\* of every node still agree, those of the nodes splitTextNodes inserted and
\* of the text child of each new anchor included.
C20_LinksStayConsistent ==
  (LinksAgree(heap0) /\ fixRuns >= 1) => LinksAgree(heap)

\* ------------------------------------------------------------------ C14
\* How many requests the iteration's actors had sent before the j-th stage
\* invocation.
SentBefore(p, j) == IF j = 1 THEN 0 ELSE log[p][j - 1].sent

\* C14: an invocation of the FixUnlinkedURL actor sends exactly one request,
\* an update whose record holds the task's GID and the serialized notes of
\* the linkified tree and none of the task's other fields, unless the
\* serialization fails, in which case it sends nothing.
C14_UpdateOnlyNotes ==
  \A p \in Workers :
    \A j \in 1..Len(log[p]) :
      LET e == log[p][j]
      IN (e.op = "actor" /\ periodics[p].taskActors[e.i].method = "FixUnlinkedURL") =>
           IF e.err = "Render failed"
           THEN e.sent = SentBefore(p, j)
           ELSE /\ e.sent = SentBefore(p, j) + 1
                /\ calls[p][e.sent] =
                     [call |-> "UpdateTask",
                      task |-> [GID |-> e.gid,
                                HTMLNotes |->
                                  StripWrapper(Render(TaskAt(p, e.t).ParsedHTMLNotes, Root)),
                                AssigneeSection |-> Nil,
                                ParsedHTMLNotes |-> <<>>]]

\* The actor has sent the linkified notes of a task that has a section, and
\* failed to serialize the next task without sending anything.
C14_Witness ==
  \E p \in Workers :
    /\ Returned(p)
    /\ err[p] = "Render failed"
    /\ Len(calls[p]) = 1
    /\ calls[p][1].call = "UpdateTask"
    /\ TaskAt(p, 1).AssigneeSection # Nil
    /\ calls[p][1].task.HTMLNotes # TaskAt(p, 1).HTMLNotes

\* ------------------------------------------------------------------ C16
\* The place of a stage kind in the order of an iteration.
StageRank(op) ==
  CASE op = "gate" -> 1
    [] op = "mutator" -> 2
    [] op = "search" -> 3
    [] op = "filter" -> 4
    [] op = "actor" -> 5

\* C16: the stage invocations of an iteration come in the order gates,
\* mutators, search, filters, actors; the search is made once, after every
\* mutator has run without error; an actor runs only after every filter has
\* run without error on every task the search returned that reached it; and
\* a gate, mutator, search or filter that fails is the last invocation of
\* its iteration.
C16_StageOrder ==
  \A p \in Workers :
    LET fe == EventsOf(p, "filter")
        me == EventsOf(p, "mutator")
    IN /\ \A j \in 1..(Len(log[p]) - 1) :
            /\ StageRank(log[p][j].op) <= StageRank(log[p][j + 1].op)
            /\ log[p][j].op # "actor" => log[p][j].err = NoErr
       /\ Len(EventsOf(p, "search")) <= 1
       /\ EventsOf(p, "search") # <<>> =>
            /\ Len(me) = Len(periodics[p].queryMutators)
            /\ \A k \in 1..Len(me) : me[k].i = k /\ me[k].err = NoErr
       /\ EventsOf(p, "actor") # <<>> =>
            /\ EventsOf(p, "search")[1].err = NoErr
            /\ \A k \in 1..Len(fe) : fe[k].err = NoErr
            /\ periodics[p].taskFilters # <<>> =>
                 \A t \in 1..Len(tasks[p]) : \E k \in 1..Len(fe) : fe[k].t = t

\* A filter failed on the last of two tasks after passing the first, and
\* the rule's actor ran on no task.
C16_Witness ==
  \E p \in Workers :
    /\ pc[p] = "ret"
    /\ err[p] # NoErr
    /\ periodics[p].taskActors # <<>>
    /\ Len(tasks[p]) = 2
    /\ EventsOf(p, "filter") # <<>>
    /\ log[p][Len(log[p])].op = "filter"
    /\ log[p][Len(log[p])].t = 2
    /\ log[p][Len(log[p])].err # NoErr
    /\ EventsOf(p, "actor") = <<>>
    /\ calls[p] = <<>>

\* ------------------------------------------------------------------ C17
\* The errors of a mutator that finds its field taken.
AnyMultipleClauses ==
  MultipleClauses \cup
    { "Multiple clauses set DueOn", "Multiple clauses set DueAfter",
      "Multiple clauses set DueBefore", "Multiple clauses set Completed",
      "Multiple clauses set Due" }

\* No two mutators of ms set the same singular field.
SingularOnce(ms) ==
  \A k1, k2 \in 1..Len(ms) :
    (k1 < k2 /\ SingularField(ms[k1]) # "") => SingularField(ms[k1]) # SingularField(ms[k2])

\* No WithTagsAnyOf or WithoutTagsAnyOf of ms that is given at least one
\* name is followed by another application of the same method, with or
\* without names.
TagsOnce(ms) ==
  \A k1, k2 \in 1..Len(ms) :
    (k1 < k2 /\ ms[k1].method \in {"WithTagsAnyOf", "WithoutTagsAnyOf"} /\ ms[k1].names # <<>>)
      => ms[k1].method # ms[k2].method

NoMultipleClauses(p) ==
  \A j \in 1..Len(log[p]) : log[p][j].err \notin AnyMultipleClauses

\* C17 as claimed: a rule whose mutators set each singular field at most
\* once never fails with a "Multiple clauses" error.
C17_SingularOnceNeverFails ==
  \A p \in Workers : SingularOnce(periodics[p].queryMutators) => NoMultipleClauses(p)

\* C17 amended: every iteration starts its mutators on an empty query,
\* whatever the iteration before left behind, so a rule in which no two
\* mutators set the same singular field and no WithTagsAnyOf or
\* WithoutTagsAnyOf given at least one name is followed by another
\* application of the same method never fails with a "Multiple clauses"
\* error, in any iteration.
C17_FreshQuery ==
  /\ [][\A p \in Workers :
          (pc[p] = "gates" /\ pc'[p] = "mutators") => q'[p] = EmptyQuery]_vars
  /\ [](\A p \in Workers :
          (SingularOnce(periodics[p].queryMutators) /\ TagsOnce(periodics[p].queryMutators))
            => NoMultipleClauses(p))

\* A new iteration of a rule that sets each field once has begun while the
\* query the iteration before built is still there.
C17_Witness ==
  \E p \in Workers :
    /\ pc[p] = "gates"
    /\ log[p] = <<>>
    /\ q[p].Completed = <<FALSE>>
    /\ q[p].DueOn # Nil
    /\ SingularOnce(periodics[p].queryMutators)
    /\ TagsOnce(periodics[p].queryMutators)

\* ------------------------------------------------------------------ C15
\* Everything worker p's loop and exec hold.
WorkerState(p) ==
  <<pc[p], err[p], gi[p], mi[p], q[p], tasks[p], ti[p], fi[p], filteredTasks[p],
    xi[p], ai[p], wait[p], log[p], calls[p], done[p]>>

\* C15: the workers of two rules are independent whatever the interleaving:
\* no step changes the state (query and task lists included) of more than
\* one worker or the registered rules, and each rule's worker is again and
\* again about to call exec and again and again back from it, also while
\* the other rule fails in every iteration.
C15_WorkersIndependent ==
  /\ [][/\ periodics' = periodics
        /\ \A p1, p2 \in Workers :
             (p1 # p2 /\ WorkerState(p1)' # WorkerState(p1))
               => WorkerState(p2)' = WorkerState(p2)]_vars
  /\ \A p \in 1..2 : []<>(pc[p] = "loop") /\ []<>(pc[p] = "ret")

\* One rule's iteration has failed on its mutators while the other rule's
\* iteration has run its actor on a task and succeeded.
C15_Witness ==
  \E p1, p2 \in Workers :
    /\ p1 # p2
    /\ pc[p1] = "ret"
    /\ err[p1] = "Multiple clauses set Completed"
    /\ pc[p2] = "ret"
    /\ err[p2] = NoErr
    /\ EventsOf(p2, "actor") # <<>>
    /\ q[p1] # q[p2]

====
